---- MODULE Spec2Model ----
(***************************************************************************)
(* Model of the two storage-triggered handlers of diir-background-service: *)
(*   processImages   (src/functions/src/imageService.ts)                   *)
(*   transcodeVideo  (src/functions/src/index.ts)                          *)
(*                                                                         *)
(* A handler invocation is a chain of awaited external calls.  The field   *)
(* pc of an invocation names the call that is in flight; one action per    *)
(* call completes it (successfully or with an error) and runs the          *)
(* synchronous code that follows it, up to and including the issue of the  *)
(* next call.                                                              *)
(*                                                                         *)
(* Strings that the code inspects are sequences of characters (content     *)
(* types) or of path segments (object names), so that startsWith,          *)
(* path.dirname and path.basename are computed and not assumed.            *)
(***************************************************************************)
EXTENDS Integers, Sequences, FiniteSets, TLC

VARIABLES bucket, tmpDirs, tmpFiles, inv

vars == <<bucket, tmpDirs, tmpFiles, inv>>

----------------------------------------------------------------------------
(* Bounds of the model *)

\* longest list of frames the video classifier returns
MaxFrames == 2
\* values Date.now() can take when the signed URL is requested: 0..MaxClock
MaxClock == 1

----------------------------------------------------------------------------
(* Program constants *)

REPLACEMENT_IMAGE_FILE_PATH == <<"prohibited.png">>
REPLACEMENT_VIDEO_FILE_PATH == <<"annotate.mp4">>

likelihoods ==
    <<"UNKNOWN", "VERY_UNLIKELY", "UNLIKELY", "POSSIBLE", "LIKELY", "VERY_LIKELY">>

\* 1000 * 60 * 60
SignedUrlValidityMs == 3600000

ImagePrefix == <<"i", "m", "a", "g", "e", "/">>
VideoPrefix == <<"v", "i", "d", "e", "o", "/">>

----------------------------------------------------------------------------
(* The environment: bucket contents, events, classifier responses *)

Handlers == {"processImages", "transcodeVideo"}

\* instances of the functions; the sequential specification uses one
Procs == {1, 2, 3}
SeqProcs == {1}

BucketName == "raw"

UserPath1 == <<"publishes", "a.png">>
UserPath2 == <<"publishes", "b.mp4">>
\* the objects of the bucket; events arrive for all of them but UserPath2, a bystander
EventPaths == {REPLACEMENT_IMAGE_FILE_PATH, REPLACEMENT_VIDEO_FILE_PATH, UserPath1}
Paths == EventPaths \cup {UserPath2}

Absent == "absent"
PngBytes == "PLACEHOLDER_PNG"
Mp4Bytes == "PLACEHOLDER_MP4"
Bytes == {PngBytes, Mp4Bytes, "user1", "user2"}

\* content types an event can declare, as character sequences
CtImagePng == <<"i", "m", "a", "g", "e", "/", "p", "n", "g">>
CtVideoMp4 == <<"v", "i", "d", "e", "o", "/", "m", "p", "4">>
ContentTypes ==
    { << >>,
      CtImagePng,
      ImagePrefix,
      CtVideoMp4,
      <<"i", "m", "a", "g", "e">>,
      <<"I", "m", "a", "g", "e", "/", "p", "n", "g">>,
      <<"x", "v", "i", "d", "e", "o", "/", "m", "p", "4">>,
      <<"t", "e", "x", "t", "/", "c", "s", "v">> }

\* obj.name and obj.contentType may be undefined; obj.name may be ""
Events ==
    { [hasName |-> TRUE, name |-> n, hasType |-> TRUE, contentType |-> c]
        : n \in EventPaths \cup {<< >>}, c \in ContentTypes }
    \cup { [hasName |-> FALSE, name |-> << >>, hasType |-> TRUE, contentType |-> c]
        : c \in {CtImagePng, CtVideoMp4} }
    \cup { [hasName |-> TRUE, name |-> n, hasType |-> FALSE, contentType |-> << >>]
        : n \in EventPaths }
    \cup { [hasName |-> FALSE, name |-> << >>, hasType |-> FALSE, contentType |-> << >>] }

LikelihoodNames == {likelihoods[i] : i \in 1..Len(likelihoods)}

\* result.safeSearchAnnotation of the Vision API: absent, or adult and violence
ImageResponses ==
    { [kind |-> "image", hasAnnotation |-> TRUE, adult |-> a, violence |-> v]
        : a \in LikelihoodNames, v \in LikelihoodNames }
    \cup { [kind |-> "image", hasAnnotation |-> FALSE, adult |-> "UNKNOWN", violence |-> "UNKNOWN"] }

\* frame.pornographyLikelihood: the enum's number 0..5, or -1 when the field is absent
FrameValues == -1..5

RECURSIVE SeqsUpTo(_, _)
SeqsUpTo(S, n) ==
    IF n = 0 THEN {<< >>}
    ELSE LET shorter == SeqsUpTo(S, n - 1)
         IN  shorter \cup {Append(s, x) : s \in {t \in shorter : Len(t) = n - 1}, x \in S}

\* one element of operationResult.annotationResults
AnnotationResults ==
    { [hasAnnotation |-> FALSE, hasFrames |-> FALSE, frames |-> << >>],
      [hasAnnotation |-> TRUE, hasFrames |-> FALSE, frames |-> << >>] }
    \cup { [hasAnnotation |-> TRUE, hasFrames |-> TRUE, frames |-> f]
        : f \in SeqsUpTo(FrameValues, MaxFrames) }

\* operationResult of the Video Intelligence job: annotationResults absent, [] or [r]
VideoResponses ==
    { [kind |-> "video", hasResults |-> FALSE, results |-> << >>],
      [kind |-> "video", hasResults |-> TRUE, results |-> << >>] }
    \cup { [kind |-> "video", hasResults |-> TRUE, results |-> <<r>>] : r \in AnnotationResults }

----------------------------------------------------------------------------
(* Pure functions of the code *)

\* a variant of startsWith that accepts the prefix anywhere in the string
Includes(s, prefix) ==
    \E k \in 0..(Len(s) - Len(prefix)) :
        \A i \in 1..Len(prefix) : s[k + i] = prefix[i]

\* String.prototype.startsWith
StartsWith(s, prefix) ==
    /\ Len(s) >= Len(prefix)
    /\ \A i \in 1..Len(prefix) : s[i] = prefix[i]

\* path.dirname and path.basename of a relative object path
Dirname(path) == SubSeq(path, 1, Len(path) - 1)
Basename(path) == path[Len(path)]

\* a directory and all its ancestors, as mkdirp creates them
Ancestors(dir) == {SubSeq(dir, 1, k) : k \in 0..Len(dir)}

\* detections?.adult, detections?.violence
Adult(r) == IF r.hasAnnotation THEN r.adult ELSE "undefined"
Violence(r) == IF r.hasAnnotation THEN r.violence ELSE "undefined"

\* a variant of imageSafeSearchDetection that looks at the adult likelihood only
imageAdultOnlyDetection(r) ==
    \/ Adult(r) = "POSSIBLE"
    \/ Adult(r) = "LIKELY"
    \/ Adult(r) = "VERY_LIKELY"

imageSafeSearchDetection(r) ==
    LET adultContent ==
            \/ Adult(r) = "POSSIBLE"
            \/ Adult(r) = "LIKELY"
            \/ Adult(r) = "VERY_LIKELY"
        violenceContent ==
            \/ Violence(r) = "POSSIBLE"
            \/ Violence(r) = "LIKELY"
            \/ Violence(r) = "VERY_LIKELY"
    IN  adultContent \/ violenceContent

\* !!frame.pornographyLikelihood: undefined and 0 are falsy
Truthy(f) == f # -1 /\ f # 0

\* a variant of the frame test whose threshold is one level too low
FrameVerdictFromUnlikely(f) ==
    Truthy(f) /\ likelihoods[f + 1] \in {"UNLIKELY", "POSSIBLE", "LIKELY", "VERY_LIKELY"}

\* the value the callback of frames.forEach assigns to isAdult for one frame
FrameVerdict(f) ==
    \/ (Truthy(f) /\ likelihoods[f + 1] = "POSSIBLE")
    \/ (Truthy(f) /\ likelihoods[f + 1] = "LIKELY")
    \/ (Truthy(f) /\ likelihoods[f + 1] = "VERY_LIKELY")

\* frames.forEach((frame) => { isAdult = ... }): each frame overwrites isAdult
RECURSIVE ForEachFrame(_, _)
ForEachFrame(frames, isAdult) ==
    IF frames = << >> THEN isAdult
    ELSE ForEachFrame(Tail(frames), FrameVerdict(Head(frames)))

\* explicitContentResults[0].explicitAnnotation raises a TypeError on an empty list
VideoDetectionThrows(r) == r.hasResults /\ r.results = << >>

videoSafeSearchDetection(r) ==
    IF ~r.hasResults THEN FALSE
    ELSE LET results == r.results[1]
         IN  IF results.hasAnnotation /\ results.hasFrames /\ Len(results.frames) > 0
             THEN ForEachFrame(results.frames, FALSE)
             ELSE FALSE

----------------------------------------------------------------------------
(* State *)

InitBucket ==
    [p \in Paths |->
        CASE p = REPLACEMENT_IMAGE_FILE_PATH -> PngBytes
          [] p = REPLACEMENT_VIDEO_FILE_PATH -> Mp4Bytes
          [] p = UserPath1 -> "user1"
          [] OTHER -> "user2"]

NoEvent == [hasName |-> FALSE, name |-> << >>, hasType |-> FALSE, contentType |-> << >>]

\* the record of an invocation at the handler's entry: b, dirs and files are the
\* bucket and the instance's temp directory at that moment, replay tells that the
\* event is a redelivery of one whose handling replaced the object and returned
Fresh(h, e, b, dirs, files, replay) ==
    [pc |-> "start", h |-> h, obj |-> e, isAdult |-> FALSE,
     respFlagged |-> FALSE, now |-> 0, calls |-> << >>, logs |-> << >>,
     result |-> "pending", error |-> "none", bucket0 |-> b, tmpDirs0 |-> dirs, tmpFiles0 |-> files,
     replay |-> replay]

IdleInv ==
    [pc |-> "idle", h |-> "processImages", obj |-> NoEvent, isAdult |-> FALSE,
     respFlagged |-> FALSE, now |-> 0, calls |-> << >>, logs |-> << >>,
     result |-> "pending", error |-> "none", bucket0 |-> InitBucket, tmpDirs0 |-> {<< >>},
     tmpFiles0 |-> [f \in Paths |-> Absent], replay |-> FALSE]

Init ==
    /\ bucket = InitBucket
    /\ tmpDirs = [p \in Procs |-> {<< >>}]
    /\ tmpFiles = [p \in Procs |-> [f \in Paths |-> Absent]]
    /\ inv = [p \in Procs |-> IdleInv]

Ended == {"returned", "raised"}

----------------------------------------------------------------------------
(* Steps of an invocation that touch only the invocation's own record *)

\* logger.log / logger.error
Log(i, level, msg) == [i EXCEPT !.logs = Append(@, [level |-> level, msg |-> msg])]

\* an awaited external call is issued
Issue(i, op, arg) ==
    [i EXCEPT !.pc = op,
              !.calls = Append(@, [op |-> op, arg |-> arg, st |-> "pending"])]

\* the call in flight completes
Settle(i, st) == [i EXCEPT !.calls[Len(i.calls)].st = st]

\* return null
ReturnNull(i) == [i EXCEPT !.pc = "returned", !.result = "null"]

\* a variant of the catch block that logs the error and does not rethrow it
CatchSwallows(i, e) ==
    [Log(i, "error", e) EXCEPT !.pc = "returned", !.result = "null"]

\* catch (error) { logger.error(error); throw error }
Catch(i, e) ==
    [Log(i, "error", e) EXCEPT !.pc = "raised", !.result = "thrown", !.error = e]

\* a variant in which transcodeVideo tests the prefix of processImages
PrefixImageOnly(h) == ImagePrefix

Prefix(h) == IF h = "processImages" THEN ImagePrefix ELSE VideoPrefix
Placeholder(h) ==
    IF h = "processImages" THEN REPLACEMENT_IMAGE_FILE_PATH ELSE REPLACEMENT_VIDEO_FILE_PATH
FirstCall(h) == IF h = "processImages" THEN "safeSearchDetection" ELSE "annotateVideo"
GsUri(e) == [bucket |-> BucketName, path |-> e.name]

\* the handler's code from its entry to its first await
Guard(i) ==
    IF ~i.obj.hasName \/ i.obj.name = << >>
    THEN ReturnNull(Log(i, "log", "Object not found"))
    ELSE IF ~i.obj.hasType \/ ~StartsWith(i.obj.contentType, Prefix(i.h))
    THEN ReturnNull(Log(i, "log",
            IF i.h = "processImages" THEN "Only format images" ELSE "Only transcode videos"))
    ELSE Issue(i, FirstCall(i.h), GsUri(i.obj))

\* if (isDetected) { ... await rawBucket.file(filePath).delete()
Replace(i) ==
    Issue(Log(i, "log", "Adult or violent content detected"), "delete", i.obj.name)

\* the signed URL request of the else branch of transcodeVideo
SignedUrlRequest(i, now) ==
    [path |-> i.obj.name, action |-> "read", expires |-> now + SignedUrlValidityMs]

Forward(i, now) ==
    Issue([i EXCEPT !.now = now], "getSignedUrl", SignedUrlRequest(i, now))

\* a variant of the axios request that sends the object path in place of the signed URL
PostRequestPathAsUrl(i, downloadURL) ==
    [method |-> "POST",
     url |-> <<"CLOUDFLAR_BASE_URL", "CLOUDFLAR_ACCOUNT_ID", "stream", "copy">>,
     Authorization |-> <<"Bearer", "CLOUDFLAR_API_TOKEN">>,
     data |-> [url |-> i.obj.name,
               meta |-> [name |-> Basename(i.obj.name),
                         path |-> i.obj.name,
                         contentURI |-> downloadURL,
                         contentRef |-> i.obj.name]]]

\* the axios request of transcodeVideo; the signed URL stands for what it grants
PostRequest(i, downloadURL) ==
    [method |-> "POST",
     url |-> <<"CLOUDFLAR_BASE_URL", "CLOUDFLAR_ACCOUNT_ID", "stream", "copy">>,
     Authorization |-> <<"Bearer", "CLOUDFLAR_API_TOKEN">>,
     data |-> [url |-> downloadURL,
               meta |-> [name |-> Basename(i.obj.name),
                         path |-> i.obj.name,
                         contentURI |-> downloadURL,
                         contentRef |-> i.obj.name]]]

Finished(i) ==
    ReturnNull(Log(i, "log",
        IF i.h = "processImages" THEN "Processing image finished"
        ELSE "Processing video finished"))

----------------------------------------------------------------------------
(* What a classifier response says, independently of the handlers' code *)

FlaggingNames == {"POSSIBLE", "LIKELY", "VERY_LIKELY"}

\* the name of a frame's pornography likelihood
FrameName(f) == IF f = -1 THEN "undefined" ELSE likelihoods[f + 1]

\* the frames of a video response
FramesOf(r) ==
    IF r.hasResults /\ r.results # << >> /\ r.results[1].hasAnnotation
        /\ r.results[1].hasFrames
    THEN r.results[1].frames
    ELSE << >>

\* at least one relevant likelihood of the response is POSSIBLE, LIKELY or VERY_LIKELY
RelevantFlagged(r) ==
    IF r.kind = "image"
    THEN r.hasAnnotation /\ (r.adult \in FlaggingNames \/ r.violence \in FlaggingNames)
    ELSE \E k \in 1..Len(FramesOf(r)) : FrameName(FramesOf(r)[k]) \in FlaggingNames

----------------------------------------------------------------------------
(* Actions *)

\* The platform delivers an object-finalized event e to handler h on instance p.
Invoke(p, h, e) ==
    /\ inv[p].pc = "idle"
    /\ inv' = [inv EXCEPT ![p] = Guard(Fresh(h, e, bucket, tmpDirs[p], tmpFiles[p], FALSE))]
    /\ UNCHANGED <<bucket, tmpDirs, tmpFiles>>

\* The platform delivers the event of the invocation that has just ended once more
\* (at-least-once delivery, or its retry of a failed invocation).
Redeliver(p) ==
    /\ inv[p].pc \in Ended
    /\ inv' = [inv EXCEPT ![p] =
                Guard(Fresh(@.h, @.obj, bucket, tmpDirs[p], tmpFiles[p],
                            @.pc = "returned" /\ @.isAdult))]
    /\ UNCHANGED <<bucket, tmpDirs, tmpFiles>>

\* The platform takes the invocation's result; the instance waits for the next event.
Collect(p) ==
    /\ inv[p].pc \in Ended
    /\ inv' = [inv EXCEPT ![p] = IdleInv]
    /\ UNCHANGED <<bucket, tmpDirs, tmpFiles>>

\* Any call in flight may be rejected; the catch block logs and rethrows.
CallFails(p) ==
    /\ inv[p].pc \notin Ended \cup {"idle"}
    /\ inv' = [inv EXCEPT ![p] = Catch(Settle(@, "failed"), @.pc)]
    /\ UNCHANGED <<bucket, tmpDirs, tmpFiles>>

\* visionClient.safeSearchDetection(gcsUri) resolves with response r.
SafeSearchDetection(p, r) ==
    /\ inv[p].pc = "safeSearchDetection"
    /\ LET i == [Settle(inv[p], "ok") EXCEPT
                    !.respFlagged = RelevantFlagged(r),
                    !.isAdult = imageSafeSearchDetection(r)]
       IN  inv' = [inv EXCEPT ![p] = IF i.isAdult THEN Replace(i) ELSE Finished(i)]
    /\ UNCHANGED <<bucket, tmpDirs, tmpFiles>>

\* client.annotateVideo(...) resolves with the long-running operation.
AnnotateVideo(p) ==
    /\ inv[p].pc = "annotateVideo"
    /\ inv' = [inv EXCEPT ![p] = Issue(Settle(@, "ok"), "operationPromise", GsUri(@.obj))]
    /\ UNCHANGED <<bucket, tmpDirs, tmpFiles>>

\* operation.promise() resolves with operationResult r; the rest of
\* videoSafeSearchDetection and the branch of transcodeVideo follow.
OperationPromise(p, r, now) ==
    /\ inv[p].pc = "operationPromise"
    /\ LET i == [Settle(inv[p], "ok") EXCEPT !.respFlagged = RelevantFlagged(r)]
           j == [i EXCEPT !.isAdult = videoSafeSearchDetection(r)]
       IN  inv' = [inv EXCEPT ![p] =
                    IF VideoDetectionThrows(r) THEN Catch(i, "TypeError")
                    ELSE IF j.isAdult THEN Replace(j)
                    ELSE Forward(j, now)]
    /\ UNCHANGED <<bucket, tmpDirs, tmpFiles>>

\* a variant without the explicit delete: the object stays until it is overwritten
DeleteSkipped(p) ==
    /\ inv[p].pc = "delete"
    /\ bucket[inv[p].obj.name] # Absent
    /\ inv' = [inv EXCEPT ![p] =
                Issue(Settle(@, "ok"), "mkdirp", Dirname(@.obj.name))]
    /\ UNCHANGED <<bucket, tmpDirs, tmpFiles>>

\* rawBucket.file(filePath).delete() resolves: the object existed and is gone.
Delete(p) ==
    /\ inv[p].pc = "delete"
    /\ bucket[inv[p].obj.name] # Absent
    /\ bucket' = [bucket EXCEPT ![inv[p].obj.name] = Absent]
    /\ inv' = [inv EXCEPT ![p] =
                Issue(Settle(@, "ok"), "mkdirp", Dirname(@.obj.name))]
    /\ UNCHANGED <<tmpDirs, tmpFiles>>

\* a variant that uploads right after mkdirp, before the placeholder is downloaded
MkdirpThenUpload(p) ==
    /\ inv[p].pc = "mkdirp"
    /\ tmpDirs' = [tmpDirs EXCEPT ![p] = @ \cup Ancestors(Dirname(inv[p].obj.name))]
    /\ inv' = [inv EXCEPT ![p] =
                Issue(Settle(@, "ok"), "upload",
                      [source |-> @.obj.name, destination |-> @.obj.name])]
    /\ UNCHANGED <<bucket, tmpFiles>>

\* mkdirp(tempFileDir) resolves.
Mkdirp(p) ==
    /\ inv[p].pc = "mkdirp"
    /\ tmpDirs' = [tmpDirs EXCEPT ![p] = @ \cup Ancestors(Dirname(inv[p].obj.name))]
    /\ inv' = [inv EXCEPT ![p] =
                Issue(Settle(@, "ok"), "download",
                      [source |-> Placeholder(@.h), destination |-> @.obj.name])]
    /\ UNCHANGED <<bucket, tmpFiles>>

\* replacementFile.download({ destination: tempFilePath }) resolves.
Download(p) ==
    /\ inv[p].pc = "download"
    /\ bucket[Placeholder(inv[p].h)] # Absent
    /\ Dirname(inv[p].obj.name) \in tmpDirs[p]
    /\ tmpFiles' = [tmpFiles EXCEPT ![p][inv[p].obj.name] = bucket[Placeholder(inv[p].h)]]
    /\ inv' = [inv EXCEPT ![p] =
                Issue(Log(Settle(@, "ok"), "log",
                          "The replacement file has been downloaded to: "),
                      "upload", [source |-> @.obj.name, destination |-> @.obj.name])]
    /\ UNCHANGED <<bucket, tmpDirs>>

\* a variant of the upload whose destination is the placeholder's own path
UploadWrongDestination(p) ==
    /\ inv[p].pc = "upload"
    /\ tmpFiles[p][inv[p].obj.name] # Absent
    /\ bucket' = [bucket EXCEPT ![Placeholder(inv[p].h)] = tmpFiles[p][inv[p].obj.name]]
    /\ inv' = [inv EXCEPT ![p] =
                Issue(Log(Settle(@, "ok"), "log", "Uploaded the replacement file to: "),
                      "unlink", @.obj.name)]
    /\ UNCHANGED <<tmpDirs, tmpFiles>>

\* rawBucket.upload(tempFilePath, { destination: filePath }) resolves.
Upload(p) ==
    /\ inv[p].pc = "upload"
    /\ tmpFiles[p][inv[p].obj.name] # Absent
    /\ bucket' = [bucket EXCEPT ![inv[p].obj.name] = tmpFiles[p][inv[p].obj.name]]
    /\ inv' = [inv EXCEPT ![p] =
                Issue(Log(Settle(@, "ok"), "log", "Uploaded the replacement file to: "),
                      "unlink", @.obj.name)]
    /\ UNCHANGED <<tmpDirs, tmpFiles>>

\* a variant of the unlink step that leaves the temporary file where it is
UnlinkKeepsFile(p) ==
    /\ inv[p].pc = "unlink"
    /\ tmpFiles[p][inv[p].obj.name] # Absent
    /\ inv' = [inv EXCEPT ![p] =
                Finished(Log(Settle(@, "ok"), "log", "Unlinked the downloaded file from: "))]
    /\ UNCHANGED <<bucket, tmpDirs, tmpFiles>>

\* a variant in which the replace branch of transcodeVideo falls through to the
\* transcoding branch
UnlinkThenForward(p) ==
    /\ inv[p].pc = "unlink"
    /\ tmpFiles[p][inv[p].obj.name] # Absent
    /\ tmpFiles' = [tmpFiles EXCEPT ![p][inv[p].obj.name] = Absent]
    /\ inv' = [inv EXCEPT ![p] =
                IF @.h = "transcodeVideo"
                THEN Forward(Log(Settle(@, "ok"), "log",
                                 "Unlinked the downloaded file from: "), 0)
                ELSE Finished(Log(Settle(@, "ok"), "log",
                                  "Unlinked the downloaded file from: "))]
    /\ UNCHANGED <<bucket, tmpDirs>>

\* unlink(tempFilePath) resolves; the handler returns null.
Unlink(p) ==
    /\ inv[p].pc = "unlink"
    /\ tmpFiles[p][inv[p].obj.name] # Absent
    /\ tmpFiles' = [tmpFiles EXCEPT ![p][inv[p].obj.name] = Absent]
    /\ inv' = [inv EXCEPT ![p] =
                Finished(Log(Settle(@, "ok"), "log", "Unlinked the downloaded file from: "))]
    /\ UNCHANGED <<bucket, tmpDirs>>

\* uploadedFile.getSignedUrl(...) resolves; signedURLs[0] grants what was asked.
GetSignedUrl(p) ==
    /\ inv[p].pc = "getSignedUrl"
    /\ LET downloadURL == inv[p].calls[Len(inv[p].calls)].arg
       IN  inv' = [inv EXCEPT ![p] =
                    Issue(Settle(@, "ok"), "post", PostRequest(@, downloadURL))]
    /\ UNCHANGED <<bucket, tmpDirs, tmpFiles>>

\* the axios POST resolves; the handler returns null.
Post(p) ==
    /\ inv[p].pc = "post"
    /\ inv' = [inv EXCEPT ![p] = Finished(Settle(@, "ok"))]
    /\ UNCHANGED <<bucket, tmpDirs, tmpFiles>>

Step(p) ==
    \/ \E h \in Handlers, e \in Events : Invoke(p, h, e)
    \/ Redeliver(p)
    \/ Collect(p)
    \/ CallFails(p)
    \/ \E r \in ImageResponses : SafeSearchDetection(p, r)
    \/ AnnotateVideo(p)
    \/ \E r \in VideoResponses, now \in 0..MaxClock : OperationPromise(p, r, now)
    \/ Delete(p)
    \/ Mkdirp(p)
    \/ Download(p)
    \/ Upload(p)
    \/ Unlink(p)
    \/ GetSignedUrl(p)
    \/ Post(p)

\* one instance handles the events one after another
Next == \E p \in SeqProcs : Step(p)

Spec == Init /\ [][Next]_vars

----------------------------------------------------------------------------
(* Concurrent invocations: the platform runs two instances at the same time.  The
   calls of the two invocations interleave freely; the only rejected calls are
   those on an object that does not exist. *)

ConcProcs == {1, 2}

AllIdle == \A p \in Procs : inv[p].pc = "idle"

\* Both functions are registered on storage.object().onFinalize: the platform
\* delivers the event e to processImages and to transcodeVideo.
DeliverToBoth(e) ==
    /\ AllIdle
    /\ inv' = [inv EXCEPT
                ![1] = Guard(Fresh("processImages", e, bucket, tmpDirs[1], tmpFiles[1], FALSE)),
                ![2] = Guard(Fresh("transcodeVideo", e, bucket, tmpDirs[2], tmpFiles[2], FALSE))]
    /\ UNCHANGED <<bucket, tmpDirs, tmpFiles>>

\* The platform delivers the event e to handler h twice; the two invocations run on
\* two instances, each with its own temp directory.
DeliverTwice(h, e) ==
    /\ AllIdle
    /\ inv' = [inv EXCEPT
                ![1] = Guard(Fresh(h, e, bucket, tmpDirs[1], tmpFiles[1], FALSE)),
                ![2] = Guard(Fresh(h, e, bucket, tmpDirs[2], tmpFiles[2], FALSE))]
    /\ UNCHANGED <<bucket, tmpDirs, tmpFiles>>

\* rawBucket.file(filePath).delete() is rejected: there is no such object.
DeleteNotFound(p) ==
    /\ inv[p].pc = "delete"
    /\ bucket[inv[p].obj.name] = Absent
    /\ CallFails(p)

\* replacementFile.download(...) is rejected: there is no such object.
DownloadNotFound(p) ==
    /\ inv[p].pc = "download"
    /\ bucket[Placeholder(inv[p].h)] = Absent
    /\ CallFails(p)

StepConc(p) ==
    \/ \E r \in ImageResponses : SafeSearchDetection(p, r)
    \/ AnnotateVideo(p)
    \/ \E r \in VideoResponses, now \in 0..MaxClock : OperationPromise(p, r, now)
    \/ Delete(p)
    \/ DeleteNotFound(p)
    \/ Mkdirp(p)
    \/ Download(p)
    \/ DownloadNotFound(p)
    \/ Upload(p)
    \/ Unlink(p)
    \/ GetSignedUrl(p)
    \/ Post(p)

NextConc ==
    \/ \E e \in Events : DeliverToBoth(e)
    \/ \E h \in Handlers, e \in Events : DeliverTwice(h, e)
    \/ \E p \in ConcProcs : StepConc(p)

SpecConc == Init /\ [][NextConc]_vars

----------------------------------------------------------------------------
(* Re-triggered events: the upload of the replacement finalizes an object at the
   event's path, so the platform calls both functions again for that path.  Here no
   call is rejected, and an object that holds a placeholder's bytes gets a
   classifier response without any likelihood of POSSIBLE or more. *)

PlaceholderBytes == {PngBytes, Mp4Bytes}

\* the response r is one the classifier gives for the object of invocation p
ResponseFor(p, r) ==
    (inv[p].obj.name \in Paths /\ bucket[inv[p].obj.name] \in PlaceholderBytes)
        => ~RelevantFlagged(r)

\* The platform delivers the event e of an original upload to handler h.
StartChain(h, e) ==
    /\ AllIdle
    /\ inv' = [inv EXCEPT ![1] = Guard(Fresh(h, e, bucket, tmpDirs[1], tmpFiles[1], FALSE))]
    /\ UNCHANGED <<bucket, tmpDirs, tmpFiles>>

\* rawBucket.upload(...) of invocation 1 has finalized a new object at the path:
\* the platform delivers its event to processImages and to transcodeVideo.
Retrigger ==
    /\ \E k \in 1..Len(inv[1].calls) :
            inv[1].calls[k].op = "upload" /\ inv[1].calls[k].st = "ok"
    /\ inv[2].pc = "idle"
    /\ inv[3].pc = "idle"
    /\ inv' = [inv EXCEPT
                ![2] = Guard(Fresh("processImages", inv[1].obj, bucket,
                                   tmpDirs[2], tmpFiles[2], FALSE)),
                ![3] = Guard(Fresh("transcodeVideo", inv[1].obj, bucket,
                                   tmpDirs[3], tmpFiles[3], FALSE))]
    /\ UNCHANGED <<bucket, tmpDirs, tmpFiles>>

StepChain(p) ==
    \/ \E r \in ImageResponses : ResponseFor(p, r) /\ SafeSearchDetection(p, r)
    \/ AnnotateVideo(p)
    \/ \E r \in VideoResponses, now \in 0..MaxClock :
            ResponseFor(p, r) /\ OperationPromise(p, r, now)
    \/ Delete(p)
    \/ Mkdirp(p)
    \/ Download(p)
    \/ Upload(p)
    \/ Unlink(p)
    \/ GetSignedUrl(p)
    \/ Post(p)

NextChain ==
    \/ \E h \in Handlers, e \in Events : StartChain(h, e)
    \/ Retrigger
    \/ \E p \in Procs : StepChain(p)

SpecChain == Init /\ [][NextChain]_vars

----------------------------------------------------------------------------
(* Vocabulary of the properties *)

\* the operations of the calls invocation i has issued, in order
Ops(i) == [k \in 1..Len(i.calls) |-> i.calls[k].op]
Issued(i, op) == \E k \in 1..Len(i.calls) : i.calls[k].op = op
CountOf(i, op) == Cardinality({k \in 1..Len(i.calls) : i.calls[k].op = op})
ErrorLogs(i) == {k \in 1..Len(i.logs) : i.logs[k].level = "error"}

StorageOps == {"delete", "download", "upload", "getSignedUrl"}
ClassifierOps == {"safeSearchDetection", "annotateVideo", "operationPromise"}

\* the event's content type is present and begins with the handler's category
TypeMatches(i) ==
    /\ i.obj.hasType
    /\ Len(i.obj.contentType) >= 6
    /\ SubSeq(i.obj.contentType, 1, 6) =
         (IF i.h = "processImages" THEN <<"i", "m", "a", "g", "e", "/">>
          ELSE <<"v", "i", "d", "e", "o", "/">>)

\* the invocation has passed the guard: its first call has been issued
PassedGuard(i) == i.pc # "idle" /\ i.calls # << >>

\* the classifier's verdict has reached the handler
VerdictKnown(i) ==
    \E k \in 1..Len(i.calls) :
        /\ i.calls[k].op \in {"safeSearchDetection", "operationPromise"}
        /\ i.calls[k].st = "ok"
        /\ i.error # "TypeError"

\* the instance's temp directory is as it was at the handler's entry
TmpUntouched(p) == tmpFiles[p] = inv[p].tmpFiles0 /\ tmpDirs[p] = inv[p].tmpDirs0

----------------------------------------------------------------------------
(* C1: an event without an object path, or whose content type is absent or does
   not start with the handler's prefix, makes the invocation return null with no
   classifier call, no storage operation, no POST and no error. *)
GuardNoOp ==
    \A p \in Procs :
        (inv[p].pc # "idle" /\ (~inv[p].obj.hasName \/ ~TypeMatches(inv[p])))
        => /\ inv[p].pc = "returned"
           /\ inv[p].result = "null"
           /\ inv[p].calls = << >>
           /\ ErrorLogs(inv[p]) = {}
           /\ bucket = inv[p].bucket0
           /\ TmpUntouched(p)

\* transcodeVideo has returned from an event whose type is video/mp4 behind an "x"
GuardNoOpWitness ==
    \E p \in Procs :
        /\ inv[p].pc = "returned"
        /\ inv[p].h = "transcodeVideo"
        /\ inv[p].obj.hasName
        /\ inv[p].obj.name = UserPath1
        /\ inv[p].obj.contentType = <<"x", "v", "i", "d", "e", "o", "/", "m", "p", "4">>

(* C2: when an invocation that passed the guard, and whose classifier response has
   a relevant likelihood of POSSIBLE or more, returns normally, the object at the
   event's path holds the placeholder's bytes and no other path has changed. *)
FlaggedIsReplaced ==
    \A p \in Procs :
        (PassedGuard(inv[p]) /\ inv[p].respFlagged /\ inv[p].pc = "returned")
        => /\ bucket[inv[p].obj.name] = inv[p].bucket0[Placeholder(inv[p].h)]
           /\ \A q \in Paths \ {inv[p].obj.name} : bucket[q] = inv[p].bucket0[q]

(* C3: an invocation whose classifier response has no relevant likelihood of
   POSSIBLE or more never issues a delete or an upload, whatever fails later. *)
UnflaggedNeverDeleted ==
    \A p \in Procs :
        (inv[p].pc # "idle" /\ ~inv[p].respFlagged)
        => /\ ~Issued(inv[p], "delete")
           /\ ~Issued(inv[p], "upload")
           /\ bucket = inv[p].bucket0

\* an unflagged video whose transcoding POST failed
UnflaggedNeverDeletedWitness ==
    \E p \in Procs :
        /\ inv[p].h = "transcodeVideo"
        /\ VerdictKnown(inv[p])
        /\ ~inv[p].respFlagged
        /\ inv[p].pc = "raised"
        /\ inv[p].error = "post"

(* C4: for every non-empty list of frames, videoSafeSearchDetection returns true
   exactly when at least one frame, at any position, has a pornography likelihood
   of POSSIBLE, LIKELY or VERY_LIKELY. *)
VideoFlaggedIffAnyFrame ==
    [][\A p \in Procs, r \in VideoResponses, now \in 0..MaxClock :
        (OperationPromise(p, r, now) /\ Len(FramesOf(r)) > 0)
        => (inv'[p].isAdult <=> RelevantFlagged(r))]_vars

(* C5: when the job's result has no annotation results (absent or an empty list),
   or a result without explicit annotation or without frames, the video is not
   flagged, nothing is raised, and transcodeVideo goes on to the signed URL. *)
VideoDefaultFalse ==
    [][\A p \in Procs, r \in VideoResponses, now \in 0..MaxClock :
        (OperationPromise(p, r, now) /\ Len(FramesOf(r)) = 0)
        => /\ ~inv'[p].isAdult
           /\ inv'[p].pc = "getSignedUrl"
           /\ inv'[p].result = "pending"]_vars

(* C6: imageSafeSearchDetection returns true exactly when the annotation is present
   and adult or violence is POSSIBLE, LIKELY or VERY_LIKELY, and processImages
   takes the replace branch exactly then. *)
ImageFlaggedIffAdultOrViolence ==
    [][\A p \in Procs, r \in ImageResponses :
        SafeSearchDetection(p, r)
        => LET flagged ==
                   /\ r.hasAnnotation
                   /\ (r.adult \in FlaggingNames \/ r.violence \in FlaggingNames)
           IN  /\ inv'[p].isAdult <=> flagged
               /\ inv'[p].pc = (IF flagged THEN "delete" ELSE "returned")]_vars

\* processImages has taken a verdict on a response that flags
ImageFlaggedWitness ==
    \E p \in Procs :
        /\ inv[p].h = "processImages"
        /\ inv[p].pc = "delete"
        /\ inv[p].respFlagged
        /\ inv[p].isAdult

(* C7: when a flagged event is handled a second time after its first handling
   replaced the object and returned, and the second handling is flagged and returns
   too, the bucket and the temp directory are as the first handling left them: the
   placeholder's bytes at the path, nothing new elsewhere, no temporary file. *)
ReplayIsIdempotent ==
    \A p \in Procs :
        (inv[p].replay /\ inv[p].isAdult /\ inv[p].pc = "returned")
        => /\ bucket = inv[p].bucket0
           /\ TmpUntouched(p)
           /\ bucket[inv[p].obj.name] = bucket[Placeholder(inv[p].h)]
           /\ tmpFiles[p][inv[p].obj.name] = Absent

\* the second handling of a flagged event has returned
ReplayIsIdempotentWitness ==
    \E p \in Procs :
        /\ inv[p].replay
        /\ inv[p].isAdult
        /\ inv[p].pc = "returned"
        /\ inv[p].obj.name = UserPath1

(* C8: a video that passed the guard and was found not flagged gets one read-only
   signed URL for its path, expiring one hour after the request, then one POST to
   {base}/{account}/stream/copy carrying that URL and the path; no delete, download
   or upload is issued and the bucket is not changed. *)
UnflaggedVideoForwarded ==
    \A p \in Procs :
        LET i == inv[p]
            all == <<"annotateVideo", "operationPromise", "getSignedUrl", "post">>
        IN  (i.h = "transcodeVideo" /\ VerdictKnown(i) /\ ~i.isAdult)
            => /\ Len(i.calls) \in 3..4
               /\ Ops(i) = SubSeq(all, 1, Len(i.calls))
               /\ i.calls[3].arg =
                    [path |-> i.obj.name, action |-> "read",
                     expires |-> i.now + 3600000]
               /\ bucket = i.bucket0
               /\ TmpUntouched(p)
               /\ i.pc = "returned" => Len(i.calls) = 4
               /\ Len(i.calls) = 4
                    => /\ i.calls[3].st = "ok"
                       /\ i.calls[4].arg.method = "POST"
                       /\ i.calls[4].arg.url =
                            <<"CLOUDFLAR_BASE_URL", "CLOUDFLAR_ACCOUNT_ID", "stream", "copy">>
                       /\ i.calls[4].arg.data.url = i.calls[3].arg
                       /\ i.calls[4].arg.data.meta.contentURI = i.calls[3].arg
                       /\ i.calls[4].arg.data.meta.path = i.obj.name
                       /\ i.calls[4].arg.data.meta.contentRef = i.obj.name

\* an unflagged video has been forwarded and the handler has returned
UnflaggedVideoForwardedWitness ==
    \E p \in Procs :
        /\ inv[p].h = "transcodeVideo"
        /\ inv[p].pc = "returned"
        /\ ~inv[p].isAdult
        /\ CountOf(inv[p], "post") = 1
        /\ inv[p].now = MaxClock

(* C9: when a call issued after the guard fails, the invocation logs that error
   once, issues no further call and raises that error; it returns null only when
   every call it issued succeeded. *)
LogAndReraise ==
    \A p \in Procs :
        LET i == inv[p]
        IN  /\ \A k \in 1..Len(i.calls) :
                 i.calls[k].st = "failed"
                 => /\ k = Len(i.calls)
                    /\ i.pc = "raised"
                    /\ i.result = "thrown"
                    /\ i.error = i.calls[k].op
                    /\ Cardinality(ErrorLogs(i)) = 1
                    /\ \A m \in ErrorLogs(i) : i.logs[m].msg = i.calls[k].op
            /\ i.pc = "returned"
                 => /\ i.result = "null"
                    /\ ErrorLogs(i) = {}
                    /\ \A k \in 1..Len(i.calls) : i.calls[k].st = "ok"

\* the upload of the placeholder failed and the handler raised
LogAndReraiseWitness ==
    \E p \in Procs :
        /\ inv[p].pc = "raised"
        /\ inv[p].error = "upload"
        /\ inv[p].calls[Len(inv[p].calls)].st = "failed"

(* C10: the objects at the two placeholder paths keep their original bytes in
   every reachable state. *)
PlaceholdersReadOnly ==
    /\ bucket[REPLACEMENT_IMAGE_FILE_PATH] = PngBytes
    /\ bucket[REPLACEMENT_VIDEO_FILE_PATH] = Mp4Bytes

----------------------------------------------------------------------------
\* the position of the first call of invocation i with operation op, 0 if none
IndexOf(i, op) ==
    IF Issued(i, op)
    THEN CHOOSE k \in 1..Len(i.calls) :
            /\ i.calls[k].op = op
            /\ \A m \in 1..(k - 1) : i.calls[m].op # op
    ELSE 0

\* the call of invocation i with operation op has resolved
Succeeded(i, op) ==
    \E k \in 1..Len(i.calls) : i.calls[k].op = op /\ i.calls[k].st = "ok"
Failed(i, op) ==
    \E k \in 1..Len(i.calls) : i.calls[k].op = op /\ i.calls[k].st = "failed"

\* the calls of the replace branch, after the classifier's
ReplaceOps == <<"delete", "mkdirp", "download", "upload", "unlink">>
ClassifyOps(h) ==
    IF h = "processImages" THEN <<"safeSearchDetection">>
    ELSE <<"annotateVideo", "operationPromise">>

(* C11: when the delete of a flagged invocation has succeeded and then mkdirp, the
   download or the upload fails, the invocation ends raised, the path holds no
   object, and no call follows the failed one. *)
PartialFailureLeavesAbsent ==
    \A p \in Procs :
        LET i == inv[p]
        IN  (/\ Succeeded(i, "delete")
             /\ (Failed(i, "mkdirp") \/ Failed(i, "download") \/ Failed(i, "upload")))
            => /\ i.pc = "raised"
               /\ i.result = "thrown"
               /\ bucket[i.obj.name] = Absent
               /\ i.calls[Len(i.calls)].st = "failed"
               /\ ~Issued(i, "unlink")

\* the download failed after the delete of the user's object
PartialFailureWitness ==
    \E p \in Procs :
        /\ inv[p].pc = "raised"
        /\ inv[p].error = "download"
        /\ inv[p].obj.name = UserPath1
        /\ Succeeded(inv[p], "delete")
        /\ bucket[UserPath1] = Absent

(* C12: at most one call of an invocation is in flight, and it is the last one
   issued; every earlier call has resolved; a flagged invocation issues classify,
   delete, mkdirp, download, upload, unlink in that order. *)
SequentialCalls ==
    \A p \in Procs :
        LET i == inv[p]
            all == ClassifyOps(i.h) \o ReplaceOps
        IN  /\ \A k \in 1..Len(i.calls) :
                 /\ k < Len(i.calls) => i.calls[k].st = "ok"
                 /\ i.calls[k].st = "pending" => (k = Len(i.calls) /\ i.pc = i.calls[k].op)
            /\ (i.pc # "idle" /\ i.isAdult)
                 => /\ Len(i.calls) <= Len(all)
                    /\ Ops(i) = SubSeq(all, 1, Len(i.calls))
            /\ Issued(i, "delete") => (VerdictKnown(i) /\ i.isAdult)
            /\ Issued(i, "upload") => Succeeded(i, "download")

\* a flagged image: the last call of the chain, unlink, is in flight
SequentialCallsWitness ==
    \E p \in Procs :
        /\ inv[p].h = "processImages"
        /\ inv[p].pc = "unlink"
        /\ Len(inv[p].calls) = 6

(* C13: when a flagged invocation returns, its temporary file is gone and the unlink
   was issued after the upload had resolved; when the download succeeded and the
   upload failed, the temporary file is still there. *)
TempFileCleanup ==
    \A p \in Procs :
        LET i == inv[p]
        IN  /\ (i.pc = "returned" /\ i.isAdult)
                 => /\ tmpFiles[p][i.obj.name] = Absent
                    /\ Succeeded(i, "upload")
                    /\ Succeeded(i, "unlink")
                    /\ IndexOf(i, "upload") < IndexOf(i, "unlink")
            /\ (Succeeded(i, "download") /\ Failed(i, "upload"))
                 => /\ tmpFiles[p][i.obj.name] # Absent
                    /\ ~Issued(i, "unlink")

\* a flagged invocation, not a redelivery, has returned
TempFileCleanupWitness ==
    \E p \in Procs :
        /\ inv[p].pc = "returned"
        /\ inv[p].isAdult
        /\ ~inv[p].replay
        /\ inv[p].tmpFiles0[inv[p].obj.name] = Absent
        /\ Succeeded(inv[p], "unlink")

(* C14: when delete, download and upload succeeded and only the unlink fails, the
   invocation raises while the path already holds the placeholder's bytes. *)
CleanupFailureRaises ==
    \A p \in Procs :
        LET i == inv[p]
        IN  Failed(i, "unlink")
            => /\ i.pc = "raised"
               /\ i.result = "thrown"
               /\ i.error = "unlink"
               /\ Succeeded(i, "delete")
               /\ Succeeded(i, "download")
               /\ Succeeded(i, "upload")
               /\ bucket[i.obj.name] # Absent
               /\ bucket[i.obj.name] = i.bucket0[Placeholder(i.h)]

\* the unlink failed after the replacement of the user's object
CleanupFailureWitness ==
    \E p \in Procs :
        /\ inv[p].pc = "raised"
        /\ inv[p].error = "unlink"
        /\ inv[p].obj.name = UserPath1
        /\ bucket[UserPath1] \in {PngBytes, Mp4Bytes}

(* C15: an invocation of transcodeVideo that issued the delete never asks for a
   signed URL nor posts; one that asked for a signed URL or posted never deletes,
   downloads or uploads; once the verdict is known exactly one branch is taken. *)
ReplaceXorForward ==
    \A p \in Procs :
        LET i == inv[p]
            replaces == Issued(i, "delete") \/ Issued(i, "download") \/ Issued(i, "upload")
            forwards == Issued(i, "getSignedUrl") \/ Issued(i, "post")
        IN  (i.pc # "idle" /\ i.h = "transcodeVideo")
            => /\ ~(replaces /\ forwards)
               /\ VerdictKnown(i) => (Issued(i, "delete") # Issued(i, "getSignedUrl"))
               /\ (replaces \/ forwards) => VerdictKnown(i)

\* a flagged video has been replaced and the handler has returned
ReplaceXorForwardWitness ==
    \E p \in Procs :
        /\ inv[p].h = "transcodeVideo"
        /\ inv[p].pc = "returned"
        /\ Succeeded(inv[p], "unlink")
        /\ inv[p].obj.name = UserPath1

----------------------------------------------------------------------------
(* C16: two invocations of one handler for one path, both flagged, interleaved, and
   with no rejected call but a delete of the absent object: once both have ended
   the path holds the placeholder's bytes, neither nothing nor the original. *)
ConcurrentReplaceEndsReplaced ==
    \A p \in ConcProcs, q \in ConcProcs :
        (/\ p # q
         /\ inv[p].pc \in Ended /\ inv[q].pc \in Ended
         /\ inv[p].h = inv[q].h /\ inv[p].obj = inv[q].obj
         /\ inv[p].isAdult /\ inv[q].isAdult
         /\ inv[p].error \in {"none", "delete"} /\ inv[q].error \in {"none", "delete"})
        => /\ bucket[inv[p].obj.name] # Absent
           /\ bucket[inv[p].obj.name] # InitBucket[inv[p].obj.name]
           /\ bucket[inv[p].obj.name] = InitBucket[Placeholder(inv[p].h)]
           /\ inv[p].pc = "returned" \/ inv[q].pc = "returned"

\* one invocation found the object already deleted and raised, the other replaced it
ConcurrentReplaceWitness ==
    /\ inv[1].pc = "raised" /\ inv[1].error = "delete"
    /\ inv[2].pc = "returned" /\ inv[2].isAdult
    /\ inv[1].isAdult
    /\ inv[1].h = inv[2].h
    /\ inv[1].obj = inv[2].obj
    /\ inv[1].obj.name = UserPath1

(* C18: of the two invocations an event causes, one of processImages and one of
   transcodeVideo, at most one passes its guard: at most one classification is
   asked for and at most one of them touches the storage or posts. *)
AtMostOneHandlerActs ==
    (/\ inv[1].pc # "idle" /\ inv[2].pc # "idle"
     /\ inv[1].h # inv[2].h
     /\ inv[1].obj = inv[2].obj)
    => /\ ~(PassedGuard(inv[1]) /\ PassedGuard(inv[2]))
       /\ CountOf(inv[1], "safeSearchDetection") + CountOf(inv[2], "annotateVideo") <= 1
       /\ \E p \in ConcProcs :
            /\ inv[p].calls = << >>
            /\ inv[p].pc = "returned"
            /\ TmpUntouched(p)

\* an image event: processImages has replaced the object, transcodeVideo did nothing
AtMostOneHandlerActsWitness ==
    /\ inv[1].h = "processImages" /\ inv[2].h = "transcodeVideo"
    /\ inv[1].obj = inv[2].obj
    /\ inv[1].obj.name = UserPath1
    /\ Succeeded(inv[1], "upload")
    /\ inv[2].pc = "returned"

----------------------------------------------------------------------------
\* the calls with operation op that the invocations of the chain have issued
ChainCount(op) == CountOf(inv[1], op) + CountOf(inv[2], op) + CountOf(inv[3], op)

\* every invocation of the chain has ended
ChainEnded ==
    /\ inv[1].pc \in Ended
    /\ Succeeded(inv[1], "upload") => (inv[2].pc \in Ended /\ inv[3].pc \in Ended)

(* C17: the chain of invocations an original upload causes issues at most one delete
   and one replacement upload, the re-triggered invocations issue none, and when the
   chain has ended after a replacement the path holds the placeholder's bytes and,
   for a video, the re-triggered transcodeVideo has issued the one POST. *)
RetriggerChainEnds ==
    /\ ChainCount("delete") <= 1
    /\ ChainCount("upload") <= 1
    /\ \A p \in {2, 3} : ~Issued(inv[p], "delete") /\ ~Issued(inv[p], "upload")
    /\ (ChainEnded /\ Succeeded(inv[1], "upload"))
         => /\ bucket[inv[1].obj.name] = InitBucket[Placeholder(inv[1].h)]
            /\ \A p \in Procs : inv[p].pc = "returned"
            /\ inv[1].h = "transcodeVideo"
                 => /\ ChainCount("post") = 1
                    /\ Succeeded(inv[3], "post")

====
